---- MODULE Spec2Model ----
(***************************************************************************)
(* SimpleMCPServer (src/mcp-server/src/mcpMain.ts): a relay that forwards  *)
(* each tool call as a request/response exchange over a socket to one of   *)
(* the connected Next.js clients.                                          *)
(*                                                                         *)
(* State of the program:                                                   *)
(*   nextjsClients  the Map<string, Socket> of line 24, as the sequence of *)
(*                  its keys in insertion order (a JavaScript Map iterates *)
(*                  in insertion order; the value of key k is socket k)    *)
(*   sockets        the Socket objects the library hands to the code: the  *)
(*                  namespace they connected on and their life cycle.      *)
(*                  socket.connected (read at lines 198 and 232) is true   *)
(*                  exactly in phase "open"; in phase "closing" the        *)
(*                  transport is gone and the 'disconnect' event has not   *)
(*                  yet been handed to the handler of lines 567/592; this  *)
(*                  is the stale entry cleanupStaleConnections looks for.  *)
(*                  A socket delivers register:nextjs and response events  *)
(*                  only while it is connected, and a socket id is never   *)
(*                  used again                                             *)
(*   calls          one record per tool call: the promise of lines 251-278 *)
(*                  (pending, resolved, rejected), its timer, its listener *)
(*                  and the request it emitted                             *)
(*   rpc            one record per JSON-RPC request of a transport (stdio  *)
(*                  or POST /mcp): the request as received and the         *)
(*                  response written for it                                *)
(*   now, timers    the time in milliseconds, and for each call the time   *)
(*                  it started and the time its setTimeout is due          *)
(*   clientSessions, nextCleanup   the sessions of the SocketManager in the *)
(*                  order of its Map, and the time its cleanup runs next   *)
(*   bridge, bridgeCalls, routes   the HttpToSocketBridge (isConnected),   *)
(*                  one record per call of a bridge method, one record per *)
(*                  request of /mcp/click-element or /mcp/navigate         *)
(* History variables, read by the properties only:                         *)
(*   regAt, clock   when the registry entry of a connection was created    *)
(*   sockets[s].sent   the connection has sent register:nextjs             *)
(*   last           the step just taken, when it was a tool call (the call,*)
(*                  its sessionId argument, the registry as it found it)   *)
(*                  or a register:nextjs event (the connection, the        *)
(*                  registry as it found it)                               *)
(*   calls[c].result.req   the request the client was answering            *)
(*   calls[c].emits        the request events emitted for the call         *)
(***************************************************************************)
EXTENDS Integers, Sequences, FiniteSets, TLC

VARIABLES nextjsClients, sockets, calls, regAt, clock, last, rpc, now, timers,
          clientSessions, nextCleanup, bridge, bridgeCalls, routes,
          booking, forms

\* the state of the dispatcher and of the clock, which the socket handlers
\* and the tool methods leave alone
aux == <<rpc, now, timers>>

\* the state of the SocketManager
sm == <<clientSessions, nextCleanup>>

\* the state of the HttpToSocketBridge and of the routes that use it
br == <<bridge, bridgeCalls, routes>>

\* the booking:fill request served and the calls of FormService.submitForm
sv == <<booking, forms>>

ext == <<sm, br, sv>>

vars == <<nextjsClients, sockets, calls, regAt, clock, last, aux, ext>>

\* Bounds of the model
MaxConns == 2
MaxCalls == 2

Ids     == 1..MaxConns
CallIds == 1..MaxCalls

\* No socket: the undefined of Map.get and the null of getBestAvailableClient
NoSocket == 0
\* sessionId absent from the arguments (undefined)
NoSession == 0
\* sessionId given as the empty string, which JavaScript treats as false
EmptySession == -1

SessionArgs == {NoSession, EmptySession} \cup Ids

\* The payloads a client may answer with
Payloads == {"p1", "p2"}
NoResult == [req |-> 0, data |-> "none"]

Tools == {"getCurrentPage", "getClickableElements", "clickElement",
          "navigatePage", "fillBookingForm"}

\* The event a tool listens to for the answer
ResponseEvent(tool) ==
  CASE tool = "getCurrentPage"       -> "mcp:pageInfo"
    [] tool = "getClickableElements" -> "mcp:clickableElements"
    [] tool = "clickElement"         -> "mcp:clickResult"
    [] tool = "navigatePage"         -> "mcp:navigationResult"
    [] tool = "fillBookingForm"      -> "mcp:bookingFormResult"

(***************************************************************************)
(* The JavaScript Map, as the sequence of its keys                         *)
(***************************************************************************)
MapHas(m, k) == \E i \in DOMAIN m : m[i] = k

\* a Map.set that moves a present key to the end
MapSetMovesLast(m, k) == Append(SelectSeq(m, LAMBDA x : x # k), k)

\* Map.set: a new key goes last, a present key keeps its place
MapSet(m, k) == IF MapHas(m, k) THEN m ELSE Append(m, k)

\* Map.delete
MapDelete(m, k) == SelectSeq(m, LAMBDA x : x # k)

\* Map.get: the socket stored under k, or undefined
MapGet(m, k) == IF MapHas(m, k) THEN k ELSE NoSocket

\* socket.connected
Connected(s) == sockets[s].phase = "open"

\* the test `sessionId ? ... : ...`
Truthy(sessionId) == sessionId # NoSession /\ sessionId # EmptySession

(***************************************************************************)
(* cleanupStaleConnections: collect the keys whose socket is not           *)
(* connected, then delete them                                             *)
(***************************************************************************)
\* a cleanup that deletes while it iterates by index and so skips the entry
\* that follows a deleted one
cleanupSkipsNext(m) ==
  SelectSeq(m, LAMBDA k : Connected(k) \/ (\E i \in DOMAIN m : i > 1 /\ m[i] = k /\ ~Connected(m[i - 1])))

cleanupStaleConnections(m) == SelectSeq(m, LAMBDA k : Connected(k))

\* a selection of the first connected entry
getFirstAvailableClient(m) ==
  LET connectedClients == SelectSeq(m, LAMBDA k : Connected(k))
  IN  IF Len(connectedClients) = 0 THEN NoSocket ELSE connectedClients[1]

\* getBestAvailableClient: the last connected entry after the cleanup
getBestAvailableClient(m) ==
  LET cleaned == cleanupStaleConnections(m)
      connectedClients == SelectSeq(cleaned, LAMBDA k : Connected(k))
  IN  IF Len(cleaned) = 0 THEN NoSocket
      ELSE IF Len(connectedClients) = 0 THEN NoSocket
      ELSE connectedClients[Len(connectedClients)]

\* the registry after the selection of a client
RegistryAfterSelect(m, sessionId) ==
  IF Truthy(sessionId) THEN m ELSE cleanupStaleConnections(m)

\* a selection that falls back to the best available client when the
\* sessionId is unknown
SelectSocketFallback(m, sessionId) ==
  IF Truthy(sessionId) /\ MapHas(m, sessionId)
    THEN sessionId
    ELSE getBestAvailableClient(m)

\* the socket a tool call selects
SelectSocket(m, sessionId) ==
  IF Truthy(sessionId) THEN MapGet(m, sessionId) ELSE getBestAvailableClient(m)

(***************************************************************************)
(* The sessions of the SocketManager                                       *)
(***************************************************************************)
\* the pages a client may report; every session starts on "/"
Pages == {"/", "/rooms"}

\* 5 * 60 * 1000: the age beyond which the cleanup deletes a session
MaxIdleMs == 300000

\* 5 * 60 * 1000: the period of the setInterval of startSessionCleanup
CleanupIntervalMs == 300000

\* the step of the clock of the sessions: half the period of the cleanup
SessionTickMs == 150000

\* the session the connection handler creates
NewSession(id, t) ==
  [id |-> id, currentPage |-> "/", lastActivity |-> t, isNextJsClient |-> FALSE]

\* clientSessions is a Map in insertion order: a sequence of sessions
SessionHas(m, id) == \E i \in DOMAIN m : m[i].id = id

SessionGet(m, id) == m[CHOOSE i \in DOMAIN m : m[i].id = id]

\* clientSessions.set(socket.id, session): a present key keeps its place
SessionSet(m, id, t) ==
  IF SessionHas(m, id)
    THEN [i \in DOMAIN m |-> IF m[i].id = id THEN NewSession(id, t) ELSE m[i]]
    ELSE Append(m, NewSession(id, t))

\* clientSessions.delete(socket.id)
SessionDelete(m, id) == SelectSeq(m, LAMBDA x : x.id # id)

\* updateClientActivity: refresh lastActivity of a session that exists
updateClientActivity(m, id, t) ==
  [i \in DOMAIN m |-> IF m[i].id = id THEN [m[i] EXCEPT !.lastActivity = t] ELSE m[i]]

\* updateClientSession: set the page, lastActivity and the flag of a session
\* that exists
updateClientSession(m, id, currentPage, isNextJsClient, t) ==
  [i \in DOMAIN m |->
     IF m[i].id = id
       THEN [m[i] EXCEPT !.currentPage = currentPage, !.lastActivity = t,
                         !.isNextJsClient = isNextJsClient]
       ELSE m[i]]

\* findNextJsClient: the first session in insertion order whose flag is set
findNextJsClient(m) ==
  LET flagged == {i \in DOMAIN m : m[i].isNextJsClient}
  IN  IF flagged = {} THEN NoSocket
      ELSE m[CHOOSE i \in flagged : \A j \in flagged : i <= j].id

\* the body of the interval of startSessionCleanup: delete every session
\* whose lastActivity is before five minutes ago
sessionCleanup(m, t) == SelectSeq(m, LAMBDA x : ~(x.lastActivity < t - MaxIdleMs))

\* the tool request events, the response events and the other events the
\* two connection handlers of the SocketManager listen to
ToolRequestEvents == {"getCurrentPage", "clickElement", "getClickableElements",
                      "navigatePage"}
PageResponseEvents == {"currentPageData", "clickElementSuccess", "navigatePageSuccess"}
OtherEvents == {"join-room", "leave-room", "booking:completed"}

\* the namespaces that have a handler for an event
HandledOn(ev) ==
  CASE ev \in {"join-room", "leave-room"} -> {"main"}
    [] ev = "booking:completed"           -> {"tools"}
    [] OTHER                              -> {"main", "tools"}

(***************************************************************************)
(* The JSON-RPC requests of the two transports                             *)
(***************************************************************************)
\* Bound: the JSON-RPC requests made in one behaviour of the dispatcher
MaxRequests == 1

\* request r uses the call record r
RequestIds == {r \in CallIds : r <= MaxRequests}

\* the ids a caller puts in its envelope; the null of the parse error; the
\* undefined of a body that has no id
RpcIds == {"id1", "id2"}
NullId == "null"
NoId   == "undefined"

\* the name of clickElement and the page of navigatePage: a string, absent,
\* or a value that is no string
ArgKinds == {"string", "absent", "other"}

\* the names a caller may ask for: the five tools and one that is none
ToolNames == Tools \cup {"unknownTool"}

\* arguments: absent, or an object with an optional sessionId and the
\* required argument of the tool
NoArgs == [hasArgs |-> FALSE, sid |-> NoSession, arg |-> "absent"]

ArgsFor(name) ==
  {NoArgs} \cup
  {[hasArgs |-> TRUE, sid |-> sid, arg |-> arg] :
     sid \in SessionArgs,
     arg \in IF name \in {"clickElement", "navigatePage"} THEN ArgKinds ELSE {"absent"}}

Request(transport, body, method, id, hasParams, name, args) ==
  [transport |-> transport, body |-> body, method |-> method, id |-> id,
   hasParams |-> hasParams, name |-> name, args |-> args]

\* the bodies POST /mcp may receive: text that is no JSON, the JSON null, a
\* JSON scalar, and an object with a method, an id and optional params
HttpRequests ==
  {Request("http", body, "none", NoId, FALSE, "none", NoArgs) :
     body \in {"invalid", "null", "scalar"}}
  \cup {Request("http", "object", method, id, FALSE, "none", NoArgs) :
          method \in {"tools/list", "tools/call", "other"}, id \in RpcIds}
  \cup UNION {{Request("http", "object", "tools/call", id, TRUE, name, args) :
                 id \in RpcIds, args \in ArgsFor(name)} : name \in ToolNames}

\* the requests the SDK hands to the two stdio handlers
StdioRequests ==
  {Request("stdio", "object", "tools/list", id, FALSE, "none", NoArgs) : id \in RpcIds}
  \cup UNION {{Request("stdio", "object", "tools/call", id, TRUE, name, args) :
                 id \in RpcIds, args \in ArgsFor(name)} : name \in ToolNames}

NoRequest == Request("none", "none", "none", NoId, FALSE, "none", NoArgs)

\* JSON.stringify(result, null, 2)
Stringify(value) == <<"json", value>>
NoText == <<"none">>

\* the error codes of POST /mcp
ParseErrorCode     == -32700
MethodNotFoundCode == -32601
InternalErrorCode  == -32603
NoCode             == 0

\* the HTTP status codes of POST /mcp
StatusOk         == 200
StatusBadRequest == 400
NoStatus         == 0

NoData == [tool |-> "none", args |-> NoArgs, sessionId |-> NoSession]

NoResponse == [kind |-> "none", status |-> NoStatus, id |-> NoId, code |-> NoCode,
               message |-> "none", tools |-> {}, text |-> NoText,
               isError |-> FALSE, data |-> NoData,
               connectedClients |-> <<>>, clientCount |-> 0]

NoRpc == [phase |-> "none", req |-> NoRequest, resp |-> NoResponse]

\* the names tools/list answers with on stdio (lines 43-127) and on HTTP
\* (lines 456-462)
ListedStdio == {"getCurrentPage", "getClickableElements", "clickElement",
                "navigatePage", "fillBookingForm"}

\* a list that has lost its last entry
ListedHttpFour == {"getCurrentPage", "getClickableElements", "clickElement",
                   "navigatePage"}

ListedHttp == {"getCurrentPage", "getClickableElements", "clickElement",
               "navigatePage", "fillBookingForm"}

\* the cases of the switch on the tool name on stdio (lines 143-161) and on
\* HTTP (lines 479-497)
StdioDispatched == {"getCurrentPage", "getClickableElements", "clickElement",
                    "navigatePage", "fillBookingForm"}

HttpDispatched == {"getCurrentPage", "getClickableElements", "clickElement",
                   "navigatePage", "fillBookingForm"}

\* the message of the Error a tool call rejects with
ErrorMessage(err) ==
  CASE err = "NoClient" -> "No Next.js client connected"
    [] err = "Timeout"  -> "Timeout"
    [] OTHER            -> "Unknown error"

(***************************************************************************)
(* The HttpToSocketBridge and the routes /mcp/click-element, /mcp/navigate *)
(***************************************************************************)
\* what a field of a request body may hold: nothing, the empty string, a
\* string, a value that is no string and truthy (5), one that is falsy (0)
FieldKinds == {"absent", "empty", "string", "number", "zero"}

\* the bodies of a route request: the field inside input and the field at
\* the top level
Bodies == [input : FieldKinds, top : FieldKinds]

\* req.body.input?.name || req.body.name
OrElse(body) == IF body.input \in {"string", "number"} THEN body.input ELSE body.top

\* an argument check that accepts every value that is present
ArgumentValidLoose(body) == OrElse(body) \in {"string", "number"}

\* !(!value || typeof value !== 'string')
ArgumentValid(body) == OrElse(body) = "string"

StatusNotFound    == 404
StatusUnavailable == 503

\* the code of the 400 answer of a route, and of its 404 answer
InvalidCode(path) ==
  IF path = "/click-element" THEN "INVALID_ELEMENT_NAME" ELSE "INVALID_PAGE_PATH"

FailedCode(path) ==
  IF path = "/click-element" THEN "CLICK_FAILED" ELSE "NAVIGATION_FAILED"

\* the bridge method a route calls, and the event that answers it
BridgeMethod(path) == IF path = "/click-element" THEN "clickElement" ELSE "navigatePage"

IdleBridgeCall == [st |-> "idle", tool |-> "none", timer |-> FALSE, listening |-> FALSE,
                   result |-> "none", emits |-> 0]

NoRoute == [phase |-> "none", path |-> "none", body |-> [input |-> "absent", top |-> "absent"],
            status |-> NoStatus, code |-> "none", ready |-> FALSE]

IdleCall == [st |-> "idle", tool |-> "none", sock |-> NoSocket,
             timer |-> FALSE, listening |-> FALSE, req |-> "none",
             err |-> "none", result |-> NoResult, emits |-> 0]

\* the timer of a call that has started none: when it was started, when it
\* is due, when it fired
NoTimer == [start |-> 0, due |-> 0, fired |-> 0]

\* a server that gives fillBookingForm the delay of navigatePage
TimeoutMsShortForm(tool) ==
  CASE tool = "getCurrentPage"       -> 5000
    [] tool = "getClickableElements" -> 5000
    [] tool = "clickElement"         -> 10000
    [] tool = "navigatePage"         -> 10000
    [] tool = "fillBookingForm"      -> 10000

\* the delay of the setTimeout of each tool method, in milliseconds
TimeoutMs(tool) ==
  CASE tool = "getCurrentPage"       -> 5000
    [] tool = "getClickableElements" -> 5000
    [] tool = "clickElement"         -> 10000
    [] tool = "navigatePage"         -> 10000
    [] tool = "fillBookingForm"      -> 15000

\* the step of the clock: the largest step that divides every delay
TickMs == 5000

\* Bound: the ticks of the clock
MaxTicks == 4

NoStep == [op |-> "none", who |-> 0, sid |-> NoSession, seen |-> <<>>]

(***************************************************************************)
(* The data of the booking:fill paths and of FormService                   *)
(***************************************************************************)
\* Bound: the calls of FormService.submitForm made in one behaviour
MaxForms == 2

\* Bound: the calendar days a date field may name
MaxDay == 2

FormIds == 1..MaxForms

\* the values of a field a caller sends: undefined, '', a string of blanks,
\* a string that is no email address, an email address, the numbers 0, a
\* number below 1 and a number from 1 on
TextKinds  == {"absent", "empty", "blank", "text", "number"}
EmailKinds == {"absent", "number", "text", "address"}
GuestKinds == {"absent", "zero", "fraction", "count", "text"}

\* a date field: undefined, a number, a string that is no date, or the
\* string of a calendar day
DateValue(kind, day) == [kind |-> kind, day |-> day]
DateInputs ==
  {DateValue(kind, 0) : kind \in {"absent", "number", "text"}}
    \cup {DateValue("date", day) : day \in 1..MaxDay}

\* !value, typeof value === 'string', value.trim().length === 0
Falsy(value)    == value \in {"absent", "empty", "zero"}
IsString(value) == value \in {"empty", "blank", "text", "address"}
IsBlank(value)  == value \in {"empty", "blank"}

\* typeof value === 'number', value < 1
IsNumber(value) == value \in {"zero", "fraction", "count", "number"}
BelowOne(value) == value \in {"zero", "fraction"}

\* emailRegex.test(value)
EmailMatches(value) == value = "address"

\* !isNaN(new Date(value).getTime())
IsDate(value) == value.kind \in {"date", "number"}

BookingInputs ==
  [customer_name : TextKinds, customer_email : EmailKinds, customer_phone : TextKinds,
   check_in_date : DateInputs, check_out_date : DateInputs, guests : GuestKinds]

\* BookingService.validateBookingData
validateBookingData(data) ==
  LET errors ==
        (IF Falsy(data.customer_name) \/ ~IsString(data.customer_name)
              \/ IsBlank(data.customer_name)
           THEN {"Customer name is required"} ELSE {})
        \cup (IF Falsy(data.customer_email) \/ ~IsString(data.customer_email)
                THEN {"Customer email is required"}
                ELSE IF ~EmailMatches(data.customer_email)
                       THEN {"Customer email must be valid"} ELSE {})
        \cup (IF Falsy(data.customer_phone) \/ ~IsString(data.customer_phone)
                   \/ IsBlank(data.customer_phone)
                THEN {"Customer phone is required"} ELSE {})
        \cup (IF data.check_in_date.kind \in {"absent", "number"}
                THEN {"Check-in date is required"}
                ELSE IF ~IsDate(data.check_in_date)
                       THEN {"Check-in date must be valid"} ELSE {})
        \cup (IF data.check_out_date.kind \in {"absent", "number"}
                THEN {"Check-out date is required"}
                ELSE (IF ~IsDate(data.check_out_date)
                        THEN {"Check-out date must be valid"} ELSE {})
                     \cup (IF /\ data.check_in_date.kind # "absent"
                              /\ IsDate(data.check_in_date)
                              /\ IsDate(data.check_out_date)
                              /\ data.check_out_date.day <= data.check_in_date.day
                             THEN {"Check-out date must be after check-in date"}
                             ELSE {}))
        \cup (IF Falsy(data.guests) \/ ~IsNumber(data.guests)
                   \/ BelowOne(data.guests)
                THEN {"Number of guests is required"} ELSE {})
  IN  [isValid |-> errors = {}, errors |-> errors]

\* the required fields POST /tools/booking/fill finds missing
requiredFields ==
  {"customer_name", "customer_email", "customer_phone", "check_in_date",
   "check_out_date", "guests"}

missingFields(data) ==
  {field \in requiredFields :
     IF field \in {"check_in_date", "check_out_date"}
       THEN data[field].kind = "absent"
       ELSE Falsy(data[field])}

\* SocketManager.emitBookingFill: one booking:fill event with the data
emitBookingFill(events, data) == Append(events, data)

NoBooking ==
  [customer_name |-> "absent", customer_email |-> "absent", customer_phone |-> "absent",
   check_in_date |-> DateValue("absent", 0), check_out_date |-> DateValue("absent", 0),
   guests |-> "absent"]

NoBookingRequest ==
  [phase |-> "none", via |-> "none", data |-> NoBooking, events |-> <<>>,
   success |-> FALSE, status |-> NoStatus]

FormInputs == [name : TextKinds, email : EmailKinds, message : TextKinds]

\* FormService.validateFormData
validateFormData(data) ==
  LET errors ==
        (IF Falsy(data.name) \/ ~IsString(data.name) \/ IsBlank(data.name)
           THEN {"Name is required"} ELSE {})
        \cup (IF Falsy(data.email) \/ ~IsString(data.email)
                THEN {"Email is required"}
                ELSE IF ~EmailMatches(data.email)
                       THEN {"Email must be valid"} ELSE {})
        \cup (IF Falsy(data.message) \/ ~IsString(data.message) \/ IsBlank(data.message)
                THEN {"Message is required"} ELSE {})
  IN  [isValid |-> errors = {}, errors |-> errors]

\* the ways axios.post ends: a 2xx response, a response with an error
\* status, no response within the timeout, an error before the request
Outcomes == {"response", "errorStatus", "noResponse", "requestError"}

\* FormService.extractErrorMessage
extractErrorMessage(outcome) ==
  CASE outcome = "errorStatus" -> "Next.js API error"
    [] outcome = "noResponse"  -> "No response from Next.js API"
    [] OTHER                   -> "Request error"

NoForm == [name |-> "absent", email |-> "absent", message |-> "absent"]

IdleForm ==
  [phase |-> "idle", data |-> NoForm, events |-> <<>>, requests |-> 0,
   returned |-> "none", error |-> "none", status |-> NoStatus]

Init ==
  /\ nextjsClients = <<>>
  /\ sockets = [s \in Ids |-> [ns |-> "none", phase |-> "new", sent |-> FALSE]]
  /\ calls = [c \in CallIds |-> IdleCall]
  /\ regAt = [s \in Ids |-> 0]
  /\ clock = 0
  /\ last = NoStep
  /\ rpc = [r \in RequestIds |-> NoRpc]
  /\ now = 0
  /\ timers = [c \in CallIds |-> NoTimer]
  /\ clientSessions = <<>>
  /\ nextCleanup = CleanupIntervalMs
  /\ bridge = [isConnected |-> FALSE]
  /\ bridgeCalls = [r \in RequestIds |-> IdleBridgeCall]
  /\ routes = [r \in RequestIds |-> NoRoute]
  /\ booking = NoBookingRequest
  /\ forms = [f \in FormIds |-> IdleForm]

(***************************************************************************)
(* The socket library: connections arrive, and their transport closes      *)
(***************************************************************************)
\* a connection takes the next unused socket id
NextId(s) == sockets[s].phase = "new" /\ \A t \in Ids : t < s => sockets[t].phase # "new"

\* io.on('connection'): the handlers are attached, the registry is not touched
MainConnection(s) ==
  /\ NextId(s)
  /\ sockets' = [sockets EXCEPT ![s] = [ns |-> "main", phase |-> "open", sent |-> FALSE]]
  /\ UNCHANGED <<nextjsClients, calls, regAt, clock>>
  /\ last' = NoStep
  /\ UNCHANGED <<aux, ext>>

\* the registry after register:nextjs on the default namespace
MainRegisterRegistry(m, s) == MapSet(m, s)

\* socket.on('register:nextjs') of the default namespace
MainRegister(s) ==
  /\ sockets[s].ns = "main" /\ Connected(s)
  /\ nextjsClients' = MainRegisterRegistry(nextjsClients, s)
  /\ IF MapHas(nextjsClients, s)
        THEN UNCHANGED <<regAt, clock>>
        ELSE clock' = clock + 1 /\ regAt' = [regAt EXCEPT ![s] = clock + 1]
  /\ sockets' = [sockets EXCEPT ![s].sent = TRUE]
  /\ UNCHANGED calls
  /\ last' = [op |-> "register", who |-> s, sid |-> NoSession, seen |-> nextjsClients]
  /\ UNCHANGED <<aux, ext>>

\* a disconnect handler that leaves the entry in place
MainDisconnectKeeps(m, s) == m

\* the registry after 'disconnect' on the default namespace
MainDisconnectRegistry(m, s) == MapDelete(m, s)

\* socket.on('disconnect') of the default namespace
MainDisconnect(s) ==
  /\ sockets[s].ns = "main" /\ sockets[s].phase = "closing"
  /\ sockets' = [sockets EXCEPT ![s].phase = "closed"]
  /\ nextjsClients' = MainDisconnectRegistry(nextjsClients, s)
  /\ UNCHANGED <<calls, regAt, clock>>
  /\ last' = NoStep
  /\ UNCHANGED <<aux, ext>>

\* a connection handler on /tools that does not register the connection
ToolsConnectionNoAuto(m, s) == m

\* the registry after a connection on /tools: auto-registration
ToolsConnectionRegistry(m, s) == MapSet(m, s)

\* toolsNamespace.on('connection')
ToolsConnection(s) ==
  /\ NextId(s)
  /\ sockets' = [sockets EXCEPT ![s] = [ns |-> "tools", phase |-> "open", sent |-> FALSE]]
  /\ nextjsClients' = ToolsConnectionRegistry(nextjsClients, s)
  /\ clock' = clock + 1
  /\ regAt' = [regAt EXCEPT ![s] = clock + 1]
  /\ UNCHANGED calls
  /\ last' = NoStep
  /\ UNCHANGED <<aux, ext>>

\* a registration that adds an entry whether or not the key is present
ToolsRegisterAppend(m, s) == Append(m, s)

\* the registry after register:nextjs on /tools
ToolsRegisterRegistry(m, s) == MapSet(m, s)

\* socket.on('register:nextjs') of /tools
ToolsRegister(s) ==
  /\ sockets[s].ns = "tools" /\ Connected(s)
  /\ nextjsClients' = ToolsRegisterRegistry(nextjsClients, s)
  /\ IF MapHas(nextjsClients, s)
        THEN UNCHANGED <<regAt, clock>>
        ELSE clock' = clock + 1 /\ regAt' = [regAt EXCEPT ![s] = clock + 1]
  /\ sockets' = [sockets EXCEPT ![s].sent = TRUE]
  /\ UNCHANGED calls
  /\ last' = [op |-> "register", who |-> s, sid |-> NoSession, seen |-> nextjsClients]
  /\ UNCHANGED <<aux, ext>>

\* the registry after 'disconnect' on /tools
ToolsDisconnectRegistry(m, s) == MapDelete(m, s)

\* socket.on('disconnect') of /tools
ToolsDisconnect(s) ==
  /\ sockets[s].ns = "tools" /\ sockets[s].phase = "closing"
  /\ sockets' = [sockets EXCEPT ![s].phase = "closed"]
  /\ nextjsClients' = ToolsDisconnectRegistry(nextjsClients, s)
  /\ UNCHANGED <<calls, regAt, clock>>
  /\ last' = NoStep
  /\ UNCHANGED <<aux, ext>>

\* the transport of a connection closes: socket.connected turns false, and
\* the 'disconnect' event is handed to the handler in a later step
SocketClose(s) ==
  /\ Connected(s)
  /\ sockets' = [sockets EXCEPT ![s].phase = "closing"]
  /\ UNCHANGED <<nextjsClients, calls, regAt, clock>>
  /\ last' = NoStep
  /\ UNCHANGED <<aux, ext>>

\* setInterval(() => this.cleanupStaleConnections(), 30000)
Sweep ==
  /\ nextjsClients' = cleanupStaleConnections(nextjsClients)
  /\ UNCHANGED <<sockets, calls, regAt, clock>>
  /\ last' = NoStep
  /\ UNCHANGED <<aux, ext>>

(***************************************************************************)
(* The tool calls: the promise executor of each of the five tool methods   *)
(***************************************************************************)
\* resolve(payload): settles a pending promise, does nothing to a settled one
Resolve(call, payload) ==
  IF call.st = "pending"
    THEN [call EXCEPT !.st = "resolved", !.result = payload]
    ELSE call

\* reject(new Error(e)): settles a pending promise, does nothing to a settled one
Reject(call, e) ==
  IF call.st = "pending"
    THEN [call EXCEPT !.st = "rejected", !.err = e]
    ELSE call

\* a timeout callback that emits the request once more before it gives up
OnTimeoutRetry(call) ==
  IF call.emits < 2
    THEN [call EXCEPT !.emits = @ + 1, !.req = "sent"]
    ELSE Reject([call EXCEPT !.timer = FALSE], "Timeout")

\* the callback of setTimeout: reject(new Error('Timeout')), and nothing else
OnTimeout(call) == Reject([call EXCEPT !.timer = FALSE], "Timeout")

\* a handler that leaves the timer running
HandlerKeepsTimer(call, payload) ==
  Resolve([call EXCEPT !.listening = FALSE], payload)

\* handler: clearTimeout(timeout); socket.off(event, handler); resolve(payload)
Handler(call, payload) ==
  Resolve([call EXCEPT !.timer = FALSE, !.listening = FALSE], payload)

\* listeners that hear the event whatever socket it arrives on
ListenersAnySocket(s, ev) ==
  {d \in CallIds : calls[d].listening /\ ResponseEvent(calls[d].tool) = ev}

\* the calls whose handler is registered on socket s for event ev
Listeners(s, ev) ==
  {d \in CallIds : /\ calls[d].listening
                    /\ calls[d].sock = s
                    /\ ResponseEvent(calls[d].tool) = ev}

\* an executor that starts the timer before it looks for a client
ExecutorTimerFirst(tool, sessionId, m) ==
  LET socket == SelectSocket(m, sessionId)
      begun  == [IdleCall EXCEPT !.st = "pending", !.tool = tool, !.timer = TRUE]
  IN  IF socket = NoSocket
        THEN Reject(begun, "NoClient")
        ELSE [begun EXCEPT !.sock = socket, !.listening = TRUE, !.req = "sent",
                           !.emits = 1]

\* an executor that starts no timer
ExecutorNoTimer(tool, sessionId, m) ==
  LET socket == SelectSocket(m, sessionId)
      begun  == [IdleCall EXCEPT !.st = "pending", !.tool = tool]
  IN  IF socket = NoSocket
        THEN Reject(begun, "NoClient")
        ELSE [begun EXCEPT !.sock = socket, !.listening = TRUE, !.req = "sent",
                           !.emits = 1]

\* the promise executor: select a client; without one reject at once, with
\* one start the timer, register the handler and emit the request
Executor(tool, sessionId, m) ==
  LET socket == SelectSocket(m, sessionId)
      begun  == [IdleCall EXCEPT !.st = "pending", !.tool = tool]
  IN  IF socket = NoSocket
        THEN Reject(begun, "NoClient")
        ELSE [begun EXCEPT !.sock = socket, !.timer = TRUE,
                           !.listening = TRUE, !.req = "sent", !.emits = 1]

\* the setTimeout of the executor: started now, due after the tool's delay
StartTimer(c, tool, sessionId, m) ==
  IF SelectSocket(m, sessionId) = NoSocket
    THEN timers
    ELSE [timers EXCEPT ![c] = [start |-> now, due |-> now + TimeoutMs(tool),
                                fired |-> 0]]

\* calls are numbered in the order they are made
NextCall(c) == calls[c].st = "idle" /\ \A d \in CallIds : d < c => calls[d].st # "idle"

getCurrentPage(c, sessionId) ==
  /\ NextCall(c)
  /\ calls' = [calls EXCEPT ![c] = Executor("getCurrentPage", sessionId, nextjsClients)]
  /\ timers' = StartTimer(c, "getCurrentPage", sessionId, nextjsClients)
  /\ nextjsClients' = RegistryAfterSelect(nextjsClients, sessionId)
  /\ last' = [op |-> "call", who |-> c, sid |-> sessionId, seen |-> nextjsClients]
  /\ UNCHANGED <<rpc, now, ext>>
  /\ UNCHANGED <<sockets, regAt, clock>>

getClickableElements(c, sessionId) ==
  /\ NextCall(c)
  /\ calls' = [calls EXCEPT ![c] = Executor("getClickableElements", sessionId, nextjsClients)]
  /\ timers' = StartTimer(c, "getClickableElements", sessionId, nextjsClients)
  /\ nextjsClients' = RegistryAfterSelect(nextjsClients, sessionId)
  /\ last' = [op |-> "call", who |-> c, sid |-> sessionId, seen |-> nextjsClients]
  /\ UNCHANGED <<rpc, now, ext>>
  /\ UNCHANGED <<sockets, regAt, clock>>

clickElement(c, sessionId) ==
  /\ NextCall(c)
  /\ calls' = [calls EXCEPT ![c] = Executor("clickElement", sessionId, nextjsClients)]
  /\ timers' = StartTimer(c, "clickElement", sessionId, nextjsClients)
  /\ nextjsClients' = RegistryAfterSelect(nextjsClients, sessionId)
  /\ last' = [op |-> "call", who |-> c, sid |-> sessionId, seen |-> nextjsClients]
  /\ UNCHANGED <<rpc, now, ext>>
  /\ UNCHANGED <<sockets, regAt, clock>>

navigatePage(c, sessionId) ==
  /\ NextCall(c)
  /\ calls' = [calls EXCEPT ![c] = Executor("navigatePage", sessionId, nextjsClients)]
  /\ timers' = StartTimer(c, "navigatePage", sessionId, nextjsClients)
  /\ nextjsClients' = RegistryAfterSelect(nextjsClients, sessionId)
  /\ last' = [op |-> "call", who |-> c, sid |-> sessionId, seen |-> nextjsClients]
  /\ UNCHANGED <<rpc, now, ext>>
  /\ UNCHANGED <<sockets, regAt, clock>>

fillBookingForm(c, sessionId) ==
  /\ NextCall(c)
  /\ calls' = [calls EXCEPT ![c] = Executor("fillBookingForm", sessionId, nextjsClients)]
  /\ timers' = StartTimer(c, "fillBookingForm", sessionId, nextjsClients)
  /\ nextjsClients' = RegistryAfterSelect(nextjsClients, sessionId)
  /\ last' = [op |-> "call", who |-> c, sid |-> sessionId, seen |-> nextjsClients]
  /\ UNCHANGED <<rpc, now, ext>>
  /\ UNCHANGED <<sockets, regAt, clock>>

\* the timer of call c fires
TimerFires(c) ==
  /\ calls[c].timer
  /\ calls' = [calls EXCEPT ![c] = OnTimeout(calls[c])]
  /\ timers' = [timers EXCEPT ![c].fired = now]
  /\ UNCHANGED <<nextjsClients, sockets, regAt, clock>>
  /\ last' = NoStep
  /\ UNCHANGED <<rpc, now, ext>>

\* the client answers the request of call c with the response event of the
\* tool; the socket hands the event to every handler registered for it
ClientResponds(c, data) ==
  /\ calls[c].req = "sent"
  /\ Connected(calls[c].sock)
  /\ LET ev      == ResponseEvent(calls[c].tool)
         fire    == Listeners(calls[c].sock, ev)
         payload == [req |-> c, data |-> data]
     IN  calls' = [d \in CallIds |->
                    LET call == IF d = c THEN [calls[d] EXCEPT !.req = "answered"]
                                         ELSE calls[d]
                    IN  IF d \in fire THEN Handler(call, payload) ELSE call]
  /\ UNCHANGED <<nextjsClients, sockets, regAt, clock>>
  /\ last' = NoStep
  /\ UNCHANGED <<aux, ext>>

Next ==
  \/ \E s \in Ids : MainConnection(s)
  \/ \E s \in Ids : MainRegister(s)
  \/ \E s \in Ids : MainDisconnect(s)
  \/ \E s \in Ids : ToolsConnection(s)
  \/ \E s \in Ids : ToolsRegister(s)
  \/ \E s \in Ids : ToolsDisconnect(s)
  \/ \E s \in Ids : SocketClose(s)
  \/ Sweep
  \/ \E c \in CallIds, sid \in SessionArgs : getCurrentPage(c, sid)
  \/ \E c \in CallIds, sid \in SessionArgs : getClickableElements(c, sid)
  \/ \E c \in CallIds, sid \in SessionArgs : clickElement(c, sid)
  \/ \E c \in CallIds, sid \in SessionArgs : navigatePage(c, sid)
  \/ \E c \in CallIds, sid \in SessionArgs : fillBookingForm(c, sid)
  \/ \E c \in CallIds : TimerFires(c)
  \/ \E c \in CallIds, data \in Payloads : ClientResponds(c, data)

Spec == Init /\ [][Next]_vars

(***************************************************************************)
(* The dispatcher: the stdio handlers and POST /mcp                        *)
(***************************************************************************)
\* args?.sessionId
SessionId(req) == IF req.args.hasArgs THEN req.args.sid ELSE NoSession

\* requests are numbered in the order they arrive
NextRequest(r) ==
  /\ rpc[r].phase = "none"
  /\ calls[r].st = "idle"
  /\ \A q \in RequestIds : q < r => rpc[q].phase # "none"

\* the outer catch of POST /mcp
ParseError ==
  [NoResponse EXCEPT !.kind = "error", !.status = StatusBadRequest, !.id = NullId,
                     !.code = ParseErrorCode, !.message = "Parse error"]

\* a method-not-found answer that forgets the id of the request
MethodNotFoundNullId(id) ==
  [NoResponse EXCEPT !.kind = "error", !.status = StatusBadRequest, !.id = NullId,
                     !.code = MethodNotFoundCode, !.message = "Method not found"]

\* the answer to a method that is neither tools/list nor tools/call
MethodNotFound(id) ==
  [NoResponse EXCEPT !.kind = "error", !.status = StatusBadRequest, !.id = id,
                     !.code = MethodNotFoundCode, !.message = "Method not found"]

\* the answer of POST /mcp to tools/list
HttpToolsList(id) ==
  [NoResponse EXCEPT !.kind = "result", !.status = StatusOk, !.id = id,
                     !.tools = ListedHttp]

\* a tool answer that carries a fixed text instead of the result
HttpToolResultBlank(req, result) ==
  [NoResponse EXCEPT !.kind = "result", !.status = StatusOk, !.id = req.id,
                     !.text = Stringify("none")]

\* the answer of POST /mcp to a tool call that returned
HttpToolResult(req, result) ==
  [NoResponse EXCEPT !.kind = "result", !.status = StatusOk, !.id = req.id,
                     !.text = Stringify(result)]

\* the inner catch of POST /mcp
HttpToolError(req, message) ==
  [NoResponse EXCEPT !.kind = "error", !.status = StatusOk, !.id = req.id,
                     !.code = InternalErrorCode, !.message = message,
                     !.data = [tool |-> req.name, args |-> req.args,
                               sessionId |-> NoSession]]

\* the answer of the stdio handler to tools/list
StdioToolsList(id) ==
  [NoResponse EXCEPT !.kind = "result", !.id = id, !.tools = ListedStdio]

\* the answer of the stdio handler to a tool call that returned
StdioToolResult(req, result) ==
  [NoResponse EXCEPT !.kind = "result", !.id = req.id, !.text = Stringify(result)]

\* the catch of the stdio handler: a result whose text is the JSON of
\* {error, message, tool, sessionId} and whose isError is true
StdioToolError(req, message) ==
  [NoResponse EXCEPT !.kind = "result", !.id = req.id, !.isError = TRUE,
                     !.message = message,
                     !.data = [tool |-> req.name, args |-> NoArgs,
                               sessionId |-> SessionId(req)],
                     !.text = Stringify("error")]

\* a switch on HTTP whose default falls through to getCurrentPage
HttpSwitchDefaultCalls(name) == IF name \in HttpDispatched THEN name ELSE "getCurrentPage"

\* the switch on the tool name: the method it calls, or none (default)
HttpSwitch(name) == IF name \in HttpDispatched THEN name ELSE "none"

StdioSwitch(name) == IF name \in StdioDispatched THEN name ELSE "none"

\* what POST /mcp answers without calling a tool
HttpImmediate(req) ==
  CASE req.body = "invalid"       -> ParseError
    [] req.body = "null"          -> ParseError
    [] req.body = "scalar"        -> MethodNotFound(NoId)
    [] req.method = "tools/list"  -> HttpToolsList(req.id)
    [] req.method = "tools/call" /\ ~req.hasParams -> ParseError
    [] req.method = "tools/call"  -> HttpToolError(req, "Unknown tool")
    [] OTHER                      -> MethodNotFound(req.id)

\* POST /mcp up to its first await or its answer
HttpPost(r, req) ==
  /\ NextRequest(r)
  /\ req \in HttpRequests
  /\ LET calling == /\ req.body = "object" /\ req.method = "tools/call"
                    /\ req.hasParams /\ HttpSwitch(req.name) # "none"
     IN  IF calling
           THEN /\ calls' = [calls EXCEPT ![r] =
                               Executor(HttpSwitch(req.name), SessionId(req), nextjsClients)]
                /\ timers' = StartTimer(r, HttpSwitch(req.name), SessionId(req),
                                        nextjsClients)
                /\ nextjsClients' = RegistryAfterSelect(nextjsClients, SessionId(req))
                /\ rpc' = [rpc EXCEPT ![r] = [phase |-> "awaiting", req |-> req,
                                              resp |-> NoResponse]]
                /\ last' = [op |-> "call", who |-> r, sid |-> SessionId(req),
                            seen |-> nextjsClients]
           ELSE /\ rpc' = [rpc EXCEPT ![r] = [phase |-> "done", req |-> req,
                                              resp |-> HttpImmediate(req)]]
                /\ last' = [op |-> "request", who |-> r, sid |-> NoSession,
                            seen |-> nextjsClients]
                /\ UNCHANGED <<calls, nextjsClients, timers>>
  /\ UNCHANGED <<sockets, regAt, clock, now, ext>>

\* POST /mcp after the awaited tool call has settled
HttpRespond(r) ==
  /\ rpc[r].phase = "awaiting"
  /\ rpc[r].req.transport = "http"
  /\ calls[r].st \in {"resolved", "rejected"}
  /\ rpc' = [rpc EXCEPT ![r].phase = "done",
                        ![r].resp =
                          IF calls[r].st = "resolved"
                            THEN HttpToolResult(rpc[r].req, calls[r].result.data)
                            ELSE HttpToolError(rpc[r].req, ErrorMessage(calls[r].err))]
  /\ last' = NoStep
  /\ UNCHANGED <<nextjsClients, sockets, calls, regAt, clock, now, timers, ext>>

\* the request line of GET /health
HealthRequest == Request("http", "none", "GET /health", NoId, FALSE, "none", NoArgs)

\* GET /health: the keys of the registry and its size
HttpGetHealth(r) ==
  /\ NextRequest(r)
  /\ rpc' = [rpc EXCEPT ![r] =
               [phase |-> "done", req |-> HealthRequest,
                resp |-> [NoResponse EXCEPT !.kind = "health", !.status = StatusOk,
                                            !.connectedClients = nextjsClients,
                                            !.clientCount = Len(nextjsClients)]]]
  /\ last' = [op |-> "request", who |-> r, sid |-> NoSession, seen |-> nextjsClients]
  /\ UNCHANGED <<nextjsClients, sockets, calls, regAt, clock, now, timers, ext>>

\* the stdio handler of tools/list
StdioListTools(r, req) ==
  /\ NextRequest(r)
  /\ req \in StdioRequests
  /\ req.method = "tools/list"
  /\ rpc' = [rpc EXCEPT ![r] = [phase |-> "done", req |-> req,
                                resp |-> StdioToolsList(req.id)]]
  /\ last' = [op |-> "request", who |-> r, sid |-> NoSession, seen |-> nextjsClients]
  /\ UNCHANGED <<nextjsClients, sockets, calls, regAt, clock, now, timers, ext>>

\* the stdio handler of tools/call up to its first await or its answer
StdioCallTool(r, req) ==
  /\ NextRequest(r)
  /\ req \in StdioRequests
  /\ req.method = "tools/call"
  /\ LET tool   == StdioSwitch(req.name)
         \* (args as any).name and (args as any).page throw without arguments
         throws == tool \in {"clickElement", "navigatePage"} /\ ~req.args.hasArgs
     IN  IF tool # "none" /\ ~throws
           THEN /\ calls' = [calls EXCEPT ![r] =
                               Executor(tool, SessionId(req), nextjsClients)]
                /\ timers' = StartTimer(r, tool, SessionId(req), nextjsClients)
                /\ nextjsClients' = RegistryAfterSelect(nextjsClients, SessionId(req))
                /\ rpc' = [rpc EXCEPT ![r] = [phase |-> "awaiting", req |-> req,
                                              resp |-> NoResponse]]
                /\ last' = [op |-> "call", who |-> r, sid |-> SessionId(req),
                            seen |-> nextjsClients]
           ELSE /\ rpc' = [rpc EXCEPT ![r] =
                             [phase |-> "done", req |-> req,
                              resp |-> StdioToolError(req, IF throws THEN "TypeError"
                                                                     ELSE "Unknown tool")]]
                /\ last' = [op |-> "request", who |-> r, sid |-> NoSession,
                            seen |-> nextjsClients]
                /\ UNCHANGED <<calls, nextjsClients, timers>>
  /\ UNCHANGED <<sockets, regAt, clock, now, ext>>

\* the stdio handler after the awaited tool call has settled
StdioRespond(r) ==
  /\ rpc[r].phase = "awaiting"
  /\ rpc[r].req.transport = "stdio"
  /\ calls[r].st \in {"resolved", "rejected"}
  /\ rpc' = [rpc EXCEPT ![r].phase = "done",
                        ![r].resp =
                          IF calls[r].st = "resolved"
                            THEN StdioToolResult(rpc[r].req, calls[r].result.data)
                            ELSE StdioToolError(rpc[r].req, ErrorMessage(calls[r].err))]
  /\ last' = NoStep
  /\ UNCHANGED <<nextjsClients, sockets, calls, regAt, clock, now, timers, ext>>

NextDispatch ==
  \/ \E s \in Ids : ToolsConnection(s)
  \/ \E s \in Ids : ToolsDisconnect(s)
  \/ \E s \in Ids : SocketClose(s)
  \/ \E r \in RequestIds, req \in HttpRequests : HttpPost(r, req)
  \/ \E r \in RequestIds : HttpRespond(r)
  \/ \E r \in RequestIds : HttpGetHealth(r)
  \/ \E r \in RequestIds, req \in StdioRequests : StdioListTools(r, req)
  \/ \E r \in RequestIds, req \in StdioRequests : StdioCallTool(r, req)
  \/ \E r \in RequestIds : StdioRespond(r)
  \/ \E c \in CallIds : TimerFires(c)
  \/ \E c \in CallIds, data \in Payloads : ClientResponds(c, data)

SpecDispatch == Init /\ [][NextDispatch]_vars

(***************************************************************************)
(* The timeouts against a clock                                            *)
(***************************************************************************)
\* the clock advances by one step; a timer that is due fires before the
\* clock passes it
Tick ==
  /\ now < MaxTicks * TickMs
  /\ \A c \in CallIds : calls[c].timer => now + TickMs <= timers[c].due
  /\ now' = now + TickMs
  /\ last' = NoStep
  /\ UNCHANGED <<nextjsClients, sockets, calls, regAt, clock, rpc, timers, ext>>

\* the callback of setTimeout runs once the delay has passed
TimerElapses(c) ==
  /\ now >= timers[c].due
  /\ TimerFires(c)

NextTimer ==
  \/ \E s \in Ids : ToolsConnection(s)
  \/ \E c \in CallIds : getCurrentPage(c, NoSession)
  \/ \E c \in CallIds : getClickableElements(c, NoSession)
  \/ \E c \in CallIds : clickElement(c, NoSession)
  \/ \E c \in CallIds : navigatePage(c, NoSession)
  \/ \E c \in CallIds : fillBookingForm(c, NoSession)
  \/ Tick
  \/ \E c \in CallIds : TimerElapses(c)
  \/ \E c \in CallIds, data \in Payloads : ClientResponds(c, data)

SpecTimer == Init /\ [][NextTimer]_vars

(***************************************************************************)
(* The SocketManager: its connection handlers and its cleanup              *)
(***************************************************************************)
\* the step just taken by the SocketManager: the event, the connection it
\* came from, the target of a forwarded request, the sessions as it found them
Event(op, s, target) == [op |-> op, who |-> s, sid |-> target, seen |-> clientSessions]

\* a client connects to the default namespace or to /tools
SmConnection(s, ns) ==
  /\ NextId(s)
  /\ sockets' = [sockets EXCEPT ![s] = [ns |-> ns, phase |-> "open", sent |-> FALSE]]
  /\ clientSessions' = SessionSet(clientSessions, s, now)
  /\ last' = Event("connection", s, NoSocket)
  /\ UNCHANGED <<nextjsClients, calls, regAt, clock, aux, sv, nextCleanup, br>>

\* a tool request event: refresh the requester, check the argument, forward
\* to the Next.js client found or answer the requester with an error
SmToolRequest(s, ev, argOk) ==
  /\ Connected(s)
  /\ ev \in ToolRequestEvents
  /\ argOk \/ ev \in {"clickElement", "navigatePage"}
  /\ clientSessions' = updateClientActivity(clientSessions, s, now)
  /\ last' = Event(ev, s, IF argOk THEN findNextJsClient(clientSessions') ELSE NoSocket)
  /\ UNCHANGED <<nextjsClients, sockets, calls, regAt, clock, aux, sv, nextCleanup, br>>

\* a response event of a client: the three that carry a page update the
\* session and set its flag, clickableElementsData refreshes it
SmResponse(s, ev, page) ==
  /\ Connected(s)
  /\ \/ /\ ev \in PageResponseEvents
        /\ clientSessions' = updateClientSession(clientSessions, s, page, TRUE, now)
     \/ /\ ev = "clickableElementsData" /\ page = "/"
        /\ clientSessions' = updateClientActivity(clientSessions, s, now)
  /\ last' = Event(ev, s, NoSocket)
  /\ UNCHANGED <<nextjsClients, sockets, calls, regAt, clock, aux, sv, nextCleanup, br>>

\* register:nextjs
SmRegister(s) ==
  /\ Connected(s)
  /\ clientSessions' = updateClientSession(clientSessions, s, "/", TRUE, now)
  /\ sockets' = [sockets EXCEPT ![s].sent = TRUE]
  /\ last' = Event("register:nextjs", s, NoSocket)
  /\ UNCHANGED <<nextjsClients, calls, regAt, clock, aux, sv, nextCleanup, br>>

\* join-room, leave-room (default namespace) and booking:completed (/tools):
\* the handlers do not touch the sessions
SmOtherEvent(s, ev) ==
  /\ Connected(s)
  /\ ev \in OtherEvents
  /\ sockets[s].ns \in HandledOn(ev)
  /\ last' = Event(ev, s, NoSocket)
  /\ UNCHANGED <<nextjsClients, sockets, calls, regAt, clock, aux, ext>>

\* disconnect
SmDisconnect(s) ==
  /\ Connected(s)
  /\ sockets' = [sockets EXCEPT ![s].phase = "closed"]
  /\ clientSessions' = SessionDelete(clientSessions, s)
  /\ last' = Event("disconnect", s, NoSocket)
  /\ UNCHANGED <<nextjsClients, calls, regAt, clock, aux, sv, nextCleanup, br>>

\* the interval of startSessionCleanup fires
SessionCleanup ==
  /\ now >= nextCleanup
  /\ clientSessions' = sessionCleanup(clientSessions, now)
  /\ nextCleanup' = nextCleanup + CleanupIntervalMs
  /\ last' = Event("cleanup", NoSocket, NoSocket)
  /\ UNCHANGED <<nextjsClients, sockets, calls, regAt, clock, aux, sv, br>>

\* the clock of the sessions advances; a cleanup that is due runs first
SessionTick ==
  /\ now < MaxTicks * SessionTickMs
  /\ now + SessionTickMs <= nextCleanup
  /\ now' = now + SessionTickMs
  /\ last' = Event("tick", NoSocket, NoSocket)
  /\ UNCHANGED <<nextjsClients, sockets, calls, regAt, clock, rpc, timers, ext>>

NextSessions ==
  \/ \E s \in Ids, ns \in {"main", "tools"} : SmConnection(s, ns)
  \/ \E s \in Ids, ev \in ToolRequestEvents, argOk \in BOOLEAN : SmToolRequest(s, ev, argOk)
  \/ \E s \in Ids, ev \in PageResponseEvents \cup {"clickableElementsData"}, page \in Pages :
       SmResponse(s, ev, page)
  \/ \E s \in Ids : SmRegister(s)
  \/ \E s \in Ids, ev \in OtherEvents : SmOtherEvent(s, ev)
  \/ \E s \in Ids : SmDisconnect(s)
  \/ SessionCleanup
  \/ SessionTick

SpecSessions == Init /\ [][NextSessions]_vars

(***************************************************************************)
(* The tool calls under a scheduler that runs every timer that is due      *)
(***************************************************************************)
NextLive ==
  \/ \E s \in Ids : ToolsConnection(s)
  \/ \E s \in Ids : ToolsDisconnect(s)
  \/ \E s \in Ids : SocketClose(s)
  \/ Sweep
  \/ \E c \in CallIds, sid \in SessionArgs : getCurrentPage(c, sid)
  \/ \E c \in CallIds, sid \in SessionArgs : getClickableElements(c, sid)
  \/ \E c \in CallIds, sid \in SessionArgs : clickElement(c, sid)
  \/ \E c \in CallIds, sid \in SessionArgs : navigatePage(c, sid)
  \/ \E c \in CallIds, sid \in SessionArgs : fillBookingForm(c, sid)
  \/ \E c \in CallIds : TimerFires(c)
  \/ \E c \in CallIds, data \in Payloads : ClientResponds(c, data)

\* the event loop runs the callback of every setTimeout that is not cleared
SpecLive == Init /\ [][NextLive]_vars /\ \A c \in CallIds : WF_vars(TimerFires(c))

(***************************************************************************)
(* The bridge routes                                                       *)
(***************************************************************************)
\* isReady(): this.isConnected && this.mcpClient !== null
isReady == bridge.isConnected

\* the socket of the bridge connects to the server, and disconnects
BridgeConnect ==
  /\ ~bridge.isConnected
  /\ bridge' = [bridge EXCEPT !.isConnected = TRUE]
  /\ last' = NoStep
  /\ UNCHANGED <<nextjsClients, sockets, calls, regAt, clock, aux, sv, sm, bridgeCalls, routes>>

BridgeDisconnect ==
  /\ bridge.isConnected
  /\ bridge' = [bridge EXCEPT !.isConnected = FALSE]
  /\ last' = NoStep
  /\ UNCHANGED <<nextjsClients, sockets, calls, regAt, clock, aux, sv, sm, bridgeCalls, routes>>

\* route requests are numbered in the order they arrive
NextRoute(r) ==
  /\ routes[r].phase = "none"
  /\ \A q \in RequestIds : q < r => routes[q].phase # "none"

\* POST /mcp/click-element and POST /mcp/navigate
RoutePaths == {"/click-element", "/navigate"}

\* a route up to its answer or to the await of the bridge method: check the
\* argument, then the bridge, then start the call (timer, listener, emit)
Route(r, path, body) ==
  /\ NextRoute(r)
  /\ IF ~ArgumentValid(body)
       THEN /\ routes' = [routes EXCEPT ![r] =
                            [phase |-> "done", path |-> path, body |-> body,
                             status |-> StatusBadRequest, code |-> InvalidCode(path),
                             ready |-> isReady]]
            /\ UNCHANGED bridgeCalls
       ELSE IF ~isReady
       THEN /\ routes' = [routes EXCEPT ![r] =
                            [phase |-> "done", path |-> path, body |-> body,
                             status |-> StatusUnavailable, code |-> "BRIDGE_NOT_READY",
                             ready |-> isReady]]
            /\ UNCHANGED bridgeCalls
       ELSE /\ routes' = [routes EXCEPT ![r] =
                            [phase |-> "awaiting", path |-> path, body |-> body,
                             status |-> NoStatus, code |-> "none", ready |-> isReady]]
            /\ bridgeCalls' = [bridgeCalls EXCEPT ![r] =
                                 [st |-> "pending", tool |-> BridgeMethod(path),
                                  timer |-> TRUE, listening |-> TRUE,
                                  result |-> "none", emits |-> 1]]
  /\ last' = NoStep
  /\ UNCHANGED <<nextjsClients, sockets, calls, regAt, clock, aux, sv, sm, bridge>>

\* the response event of a tool arrives on the socket of the bridge: every
\* handler registered for it clears its timer, removes itself and resolves
BridgeResponds(tool) ==
  /\ bridge.isConnected
  /\ \E r \in RequestIds : bridgeCalls[r].listening /\ bridgeCalls[r].tool = tool
  /\ bridgeCalls' =
       [r \in RequestIds |->
          IF bridgeCalls[r].listening /\ bridgeCalls[r].tool = tool
            THEN [bridgeCalls[r] EXCEPT
                    !.timer = FALSE, !.listening = FALSE,
                    !.st = "resolved",
                    !.result = IF bridgeCalls[r].st = "pending" THEN "data" ELSE @]
            ELSE bridgeCalls[r]]
  /\ last' = NoStep
  /\ UNCHANGED <<nextjsClients, sockets, calls, regAt, clock, aux, sv, sm, bridge, routes>>

\* the timer of a bridge call fires: resolve(null); the listener stays
BridgeTimeout(r) ==
  /\ bridgeCalls[r].timer
  /\ bridgeCalls' = [bridgeCalls EXCEPT ![r].timer = FALSE, ![r].st = "resolved",
                                        ![r].result = "null"]
  /\ last' = NoStep
  /\ UNCHANGED <<nextjsClients, sockets, calls, regAt, clock, aux, sv, sm, bridge, routes>>

\* a route after the awaited bridge method has resolved
RouteRespond(r) ==
  /\ routes[r].phase = "awaiting"
  /\ bridgeCalls[r].st = "resolved"
  /\ routes' = [routes EXCEPT
                  ![r].phase = "done",
                  ![r].status = IF bridgeCalls[r].result = "data"
                                  THEN StatusOk ELSE StatusNotFound,
                  ![r].code = IF bridgeCalls[r].result = "data"
                                THEN "none" ELSE FailedCode(routes[r].path)]
  /\ last' = NoStep
  /\ UNCHANGED <<nextjsClients, sockets, calls, regAt, clock, aux, sv, sm, bridge, bridgeCalls>>

NextRoutes ==
  \/ BridgeConnect
  \/ BridgeDisconnect
  \/ \E r \in RequestIds, path \in RoutePaths, body \in Bodies : Route(r, path, body)
  \/ \E tool \in {"clickElement", "navigatePage"} : BridgeResponds(tool)
  \/ \E r \in RequestIds : BridgeTimeout(r)
  \/ \E r \in RequestIds : RouteRespond(r)

SpecRoutes == Init /\ [][NextRoutes]_vars

(***************************************************************************)
(* The booking:fill paths: BookingService and POST /tools/booking/fill     *)
(***************************************************************************)
\* BookingService.sendBookingFillEvent
sendBookingFillEvent ==
  /\ booking.phase = "none"
  /\ \E data \in BookingInputs :
       LET validation == validateBookingData(data)
       IN  booking' =
             [phase |-> "done", via |-> "service", data |-> data,
              events |-> IF validation.isValid
                           THEN emitBookingFill(booking.events, data)
                           ELSE booking.events,
              success |-> validation.isValid, status |-> NoStatus]
  /\ UNCHANGED <<nextjsClients, sockets, calls, regAt, clock, last, aux, sm, br, forms>>

\* POST /tools/booking/fill
PostBookingFill ==
  /\ booking.phase = "none"
  /\ \E data \in BookingInputs :
       booking' =
         IF missingFields(data) # {}
           THEN [phase |-> "done", via |-> "route", data |-> data,
                 events |-> booking.events, success |-> FALSE,
                 status |-> StatusBadRequest]
           ELSE [phase |-> "done", via |-> "route", data |-> data,
                 events |-> emitBookingFill(booking.events, data), success |-> TRUE,
                 status |-> StatusOk]
  /\ UNCHANGED <<nextjsClients, sockets, calls, regAt, clock, last, aux, sm, br, forms>>

NextBooking ==
  \/ sendBookingFillEvent
  \/ PostBookingFill

SpecBooking == Init /\ [][NextBooking]_vars

(***************************************************************************)
(* FormService.submitForm and POST /tools/fill-form                        *)
(***************************************************************************)
\* the calls of submitForm are numbered in the order they are made
NextForm(f) ==
  /\ forms[f].phase = "idle"
  /\ \A g \in FormIds : g < f => forms[g].phase # "idle"

\* the status POST /tools/fill-form answers the returned result with
FillFormStatus(success) == IF success THEN StatusOk ELSE StatusBadRequest

\* a submitForm that announces the processing before it validates
submitFormProcessingFirst(f, data) ==
  /\ NextForm(f)
  /\ data \in FormInputs
  /\ forms' = [forms EXCEPT ![f] =
       IF ~validateFormData(data).isValid
         THEN [phase |-> "done", data |-> data,
               events |-> <<"form:received", "form:processing", "form:error">>,
               requests |-> 0, returned |-> "failure",
               error |-> "Validation failed", status |-> FillFormStatus(FALSE)]
         ELSE [phase |-> "awaiting", data |-> data,
               events |-> <<"form:received", "form:processing">>,
               requests |-> 1, returned |-> "none",
               error |-> "none", status |-> NoStatus]]
  /\ UNCHANGED <<nextjsClients, sockets, calls, regAt, clock, last, aux, sm, br, booking>>

\* FormService.submitForm up to its return or to the await of axios.post
submitForm(f, data) ==
  /\ NextForm(f)
  /\ data \in FormInputs
  /\ forms' = [forms EXCEPT ![f] =
       IF ~validateFormData(data).isValid
         THEN [phase |-> "done", data |-> data,
               events |-> <<"form:received", "form:error">>,
               requests |-> 0, returned |-> "failure",
               error |-> "Validation failed", status |-> FillFormStatus(FALSE)]
         ELSE [phase |-> "awaiting", data |-> data,
               events |-> <<"form:received", "form:processing">>,
               requests |-> 1, returned |-> "none",
               error |-> "none", status |-> NoStatus]]
  /\ UNCHANGED <<nextjsClients, sockets, calls, regAt, clock, last, aux, sm, br, booking>>

\* axios.post has ended: submitForm emits its last event and returns
AxiosSettles(f, outcome) ==
  /\ forms[f].phase = "awaiting"
  /\ forms' = [forms EXCEPT ![f] =
       IF outcome = "response"
         THEN [@ EXCEPT !.phase = "done",
                        !.events = Append(@, "form:submitted"),
                        !.returned = "success",
                        !.status = FillFormStatus(TRUE)]
         ELSE [@ EXCEPT !.phase = "done",
                        !.events = Append(@, "form:error"),
                        !.returned = "failure",
                        !.error = extractErrorMessage(outcome),
                        !.status = FillFormStatus(FALSE)]]
  /\ UNCHANGED <<nextjsClients, sockets, calls, regAt, clock, last, aux, sm, br, booking>>

NextForms ==
  \/ \E f \in FormIds, data \in FormInputs : submitForm(f, data)
  \/ \E f \in FormIds, outcome \in Outcomes : AxiosSettles(f, outcome)

\* axios.post is given a timeout of 10 seconds, so every request ends
SpecForms ==
  /\ Init /\ [][NextForms]_vars
  /\ \A f \in FormIds : WF_vars(\E outcome \in Outcomes : AxiosSettles(f, outcome))

(***************************************************************************)
(* Properties                                                              *)
(***************************************************************************)
Keys(m) == {m[i] : i \in DOMAIN m}

\* the call the step just taken made
LastCall == calls[last.who]

\* the clients that are registered and connected
RegisteredConnected == {s \in Ids : Connected(s) /\ regAt[s] > 0}

\* C1: when two calls of the same tool are pending on the same client, each
\* call is resolved only with the response the client produced for the
\* call's own request: the response to call A is never delivered to call B
C1_OwnResponseOnly ==
  \A c \in CallIds : calls[c].st = "resolved" => calls[c].result.req = c

\* C2: a call that ends by timeout is rejected with Timeout, and afterwards
\* the response listener it registered is no longer registered on the socket
C2_TimeoutRemovesListener ==
  \A c \in CallIds :
    calls[c].err = "Timeout" => calls[c].st = "rejected" /\ ~calls[c].listening

\* C3: a response the client sends for a call that has already timed out is
\* dropped: a newer pending call of the same tool is not resolved with it
C3_LateResponseDropped ==
  [][\A a, b \in CallIds :
       (calls[a].err = "Timeout" /\ calls[b].st = "pending" /\ calls'[b].st = "resolved")
         => calls'[b].result.req # a]_vars

\* C4: every call has exactly one outcome: once resolved or rejected its
\* outcome never changes (a call rejected with Timeout is never afterwards
\* resolved, a resolved call is never afterwards rejected), and a call a
\* response resolved has its timer cancelled and its listener removed
C4_ExactlyOneOutcome ==
  [][\A c \in CallIds :
       /\ calls[c].st \in {"resolved", "rejected"}
            => /\ calls'[c].st = calls[c].st
               /\ calls'[c].result = calls[c].result
               /\ calls'[c].err = calls[c].err
       /\ calls'[c].st = "resolved" => ~calls'[c].timer /\ ~calls'[c].listening]_vars

\* C4 witness: a call was rejected with Timeout, the client's response came
\* afterwards, and the call is still rejected
C4_Witness ==
  \E c \in CallIds :
    /\ calls[c].st = "rejected" /\ calls[c].err = "Timeout"
    /\ calls[c].req = "answered"
    /\ calls[c].result = NoResult

\* C5: a call of any of the five tools made while the registry is empty fails
\* at once with the no-client error: no request, no listener, no timer
C5_EmptyRegistryFailsAtOnce ==
  (last.op = "call" /\ last.seen = <<>>)
    => /\ LastCall.st = "rejected" /\ LastCall.err = "NoClient"
       /\ LastCall.req = "none" /\ LastCall.sock = NoSocket
       /\ ~LastCall.listening /\ ~LastCall.timer

\* C5 witness: a call with a sessionId and a call without one, both made on
\* the empty registry, have failed with the no-client error
C5_Witness ==
  /\ last.op = "call" /\ last.seen = <<>> /\ last.who > 1
  /\ Truthy(last.sid)
  /\ \A c \in 1..last.who : calls[c].err = "NoClient"
  /\ \A s \in Ids : sockets[s].phase = "new"

C7_MostRecentlyRegistered ==
  (last.op = "call" /\ ~Truthy(last.sid))
    => IF RegisteredConnected = {}
         THEN LastCall.sock = NoSocket /\ LastCall.err = "NoClient"
         ELSE /\ LastCall.sock \in RegisteredConnected
              /\ \A t \in RegisteredConnected : regAt[t] <= regAt[LastCall.sock]
              /\ LastCall.req = "sent"

\* C7 witness: the previous call went to the most recently registered
\* client, that client has disconnected, and this call without sessionId
\* goes to the client registered before it
C7_Witness ==
  /\ last.op = "call" /\ ~Truthy(last.sid) /\ last.who = 2
  /\ calls[2].sock # NoSocket /\ calls[1].sock # NoSocket
  /\ calls[1].sock # calls[2].sock
  /\ regAt[calls[1].sock] > regAt[calls[2].sock]
  /\ sockets[calls[1].sock].phase = "closed"

\* C8: every selection, with a sessionId or without, first discards the
\* registry entries whose socket is disconnected, so the client the request
\* is emitted to is connected when it is selected
C8_SelectionDiscardsDisconnected ==
  last.op = "call"
    => /\ \A k \in Keys(nextjsClients) : Connected(k)
       /\ LastCall.sock # NoSocket => Connected(LastCall.sock)

\* C9: on /tools an explicit register:nextjs from a connection that is
\* already auto-registered leaves exactly one entry for the connection and
\* the size of the registry as it was
C9_RegisterIdempotent ==
  (last.op = "register" /\ sockets[last.who].ns = "tools" /\ MapHas(last.seen, last.who))
    => /\ Cardinality({i \in DOMAIN nextjsClients : nextjsClients[i] = last.who}) = 1
       /\ Len(nextjsClients) = Len(last.seen)

\* C9 witness: an auto-registered /tools connection has sent register:nextjs
\* while another client is in the registry
C9_Witness ==
  /\ last.op = "register" /\ sockets[last.who].ns = "tools"
  /\ MapHas(last.seen, last.who)
  /\ Len(last.seen) > 1

\* C10: the registry never holds an entry for a connection whose disconnect
\* event has been handled, on the default namespace and on /tools
C10_NoEntryAfterDisconnect ==
  \A s \in Ids : sockets[s].phase = "closed" => ~MapHas(nextjsClients, s)

\* C10 witness: a registered connection of the default namespace and a
\* connection of /tools have both disconnected
C10_Witness ==
  \E s, t \in Ids :
    /\ sockets[s].phase = "closed" /\ sockets[s].ns = "main" /\ regAt[s] > 0
    /\ sockets[t].phase = "closed" /\ sockets[t].ns = "tools"

\* C11: a connection of the default namespace is in the registry only after
\* it has sent register:nextjs; a connection of /tools is in the registry
\* from the moment it connects
C11_RegisteredWhen ==
  \A s \in Ids :
    /\ (sockets[s].ns = "main" /\ MapHas(nextjsClients, s)) => sockets[s].sent
    /\ (sockets[s].ns = "tools" /\ Connected(s)) => MapHas(nextjsClients, s)

\* C11 witness: a connected client of the default namespace that has sent
\* nothing is outside the registry while a client of /tools that has sent
\* nothing is inside
C11_Witness ==
  \E s, t \in Ids :
    /\ sockets[s].ns = "main" /\ Connected(s) /\ ~sockets[s].sent
    /\ ~MapHas(nextjsClients, s)
    /\ sockets[t].ns = "tools" /\ Connected(t) /\ ~sockets[t].sent
    /\ MapHas(nextjsClients, t)

\* the requests that have been answered
Answered == {r \in RequestIds : rpc[r].phase = "done"}

\* request r is a tools/call whose params name a tool
NamesTool(r) ==
  /\ rpc[r].req.body = "object"
  /\ rpc[r].req.method = "tools/call"
  /\ rpc[r].req.hasParams

\* request r left the registry as it found it and contacted no client
NoClientContacted(r) ==
  /\ calls[r] = IdleCall
  /\ (last.op = "request" /\ last.who = r) => nextjsClients = last.seen

C13_UnknownToolFails ==
  \A r \in RequestIds :
    (NamesTool(r) /\ rpc[r].req.name \notin Tools)
      => /\ rpc[r].phase = "done"
         /\ rpc[r].resp.message = "Unknown tool"
         /\ rpc[r].resp.kind = "error" \/ rpc[r].resp.isError
         /\ rpc[r].resp.data.tool = rpc[r].req.name
         /\ NoClientContacted(r)
         /\ calls[r].emits = 0

\* C13 witness: an unknown tool was asked for over HTTP while a client was
\* registered and connected, and the unknown-tool error has been returned
C13_Witness ==
  \E r \in RequestIds :
    /\ NamesTool(r) /\ rpc[r].req.name \notin Tools
    /\ rpc[r].req.transport = "http"
    /\ rpc[r].resp.message = "Unknown tool"
    /\ last.op = "request" /\ last.who = r
    /\ \E s \in Ids : Connected(s) /\ MapHas(nextjsClients, s)

C15_SingleCallPayloadVerbatim ==
  /\ [][\A c \in CallIds, data \in Payloads :
          (/\ {d \in CallIds : calls[d].st = "pending"} = {c}
           /\ ClientResponds(c, data))
            => /\ calls'[c].st = "resolved"
               /\ calls'[c].result = [req |-> c, data |-> data]]_vars
  /\ [](\A r \in Answered :
          calls[r].st = "resolved"
            => /\ rpc[r].resp.kind = "result"
               /\ ~rpc[r].resp.isError
               /\ rpc[r].resp.id = rpc[r].req.id
               /\ rpc[r].resp.text = Stringify(calls[r].result.data)
               /\ rpc[r].req.name = calls[r].tool)

\* C15 witness: fillBookingForm asked for over HTTP was answered by the
\* client and the answer's payload is the text of the result
C15_Witness ==
  \E r \in Answered :
    /\ rpc[r].req.transport = "http"
    /\ rpc[r].req.name = "fillBookingForm"
    /\ calls[r].st = "resolved" /\ calls[r].result = [req |-> r, data |-> "p2"]
    /\ rpc[r].resp.text = Stringify("p2")

\* C16: POST /mcp answers a body that is no valid JSON with ParseError
\* (-32700, id null) and a valid envelope whose method is neither tools/list
\* nor tools/call with MethodNotFound (-32601) carrying the request's id; in
\* both cases no client is contacted and the registry is unchanged
C16_ParseErrorAndMethodNotFound ==
  \A r \in Answered :
    rpc[r].req.transport = "http"
      => /\ rpc[r].req.body = "invalid"
              => /\ rpc[r].resp.kind = "error"
                 /\ rpc[r].resp.code = -32700
                 /\ rpc[r].resp.id = NullId
                 /\ NoClientContacted(r)
         /\ (rpc[r].req.body = "object" /\ rpc[r].req.method = "other")
              => /\ rpc[r].resp.kind = "error"
                 /\ rpc[r].resp.code = -32601
                 /\ rpc[r].resp.id = rpc[r].req.id
                 /\ NoClientContacted(r)

\* C16 witness: a request with an unknown method and the id id2 was answered
\* with MethodNotFound while a client was registered and connected
C16_Witness ==
  \E r \in Answered :
    /\ rpc[r].req.method = "other" /\ rpc[r].req.id = "id2"
    /\ rpc[r].resp.code = MethodNotFoundCode
    /\ last.op = "request" /\ last.who = r
    /\ \E s \in Ids : Connected(s) /\ MapHas(nextjsClients, s)

\* C17: tools/list returns exactly the five tool names on stdio and on HTTP,
\* whatever the state of the registry, and the listed names are the names
\* tools/call dispatches
C17_ListIsTheFiveTools ==
  /\ \A r \in Answered :
       (rpc[r].req.body = "object" /\ rpc[r].req.method = "tools/list")
         => /\ rpc[r].resp.kind = "result"
            /\ rpc[r].resp.tools = {"getCurrentPage", "getClickableElements",
                                    "clickElement", "navigatePage", "fillBookingForm"}
            /\ NoClientContacted(r)
  /\ ListedStdio = StdioDispatched
  /\ ListedHttp = HttpDispatched

\* C17 witness: tools/list was answered over HTTP while the registry held a
\* client that is no longer connected
C17_Witness ==
  \E r \in Answered :
    /\ rpc[r].req.method = "tools/list" /\ rpc[r].req.transport = "http"
    /\ rpc[r].resp.tools = ListedHttp
    /\ \E s \in Ids : MapHas(nextjsClients, s) /\ ~Connected(s)

OtherClientAvailable(c) ==
  \E s \in Ids : s # calls[c].sock /\ Connected(s) /\ MapHas(nextjsClients, s)

C20_TimeoutBudgets ==
  \A c \in CallIds :
    LET budget == CASE calls[c].tool \in {"getCurrentPage", "getClickableElements"} -> 5000
                    [] calls[c].tool \in {"clickElement", "navigatePage"} -> 10000
                    [] calls[c].tool = "fillBookingForm" -> 15000
                    [] OTHER -> 0
    IN  /\ calls[c].err = "Timeout" => timers[c].fired - timers[c].start = budget
        /\ calls[c].st = "pending" => now - timers[c].start <= budget

\* C20 witness: a fillBookingForm call and a clickElement call started at
\* different times have both been rejected with Timeout
C20_Witness ==
  \E c, d \in CallIds :
    /\ calls[c].tool = "fillBookingForm" /\ calls[c].err = "Timeout"
    /\ calls[d].tool = "clickElement" /\ calls[d].err = "Timeout"
    /\ timers[c].start # timers[d].start

\* C26: two calls pending at the same time against two different clients
\* are independent: a response event from client X never resolves a call
\* that was sent to client Y, whatever the order of the two responses
C26_DifferentClientsIndependent ==
  \A c \in CallIds :
    calls[c].st = "resolved"
      => /\ calls[c].result.req \in CallIds
         /\ calls[calls[c].result.req].sock = calls[c].sock

\* C26 witness: the second of two calls sent to different clients has been
\* resolved with its own client's answer while the first is still pending
C26_Witness ==
  \E c, d \in CallIds :
    /\ c < d
    /\ calls[c].sock # NoSocket /\ calls[d].sock # NoSocket
    /\ calls[c].sock # calls[d].sock
    /\ calls[c].tool = calls[d].tool
    /\ calls[c].st = "pending" /\ calls[c].req = "sent"
    /\ calls[d].st = "resolved" /\ calls[d].result.req = d

\* C27: under any interleaving with connect, register and disconnect events
\* one run of cleanupStaleConnections removes exactly the registry entries
\* whose socket is disconnected when it runs: no entry of a connected socket
\* is removed, no entry of a disconnected one is left, the order is kept
C27_SweepRemovesExactlyDisconnected ==
  [][Sweep =>
       /\ Keys(nextjsClients') = {s \in Keys(nextjsClients) : Connected(s)}
       /\ Len(nextjsClients') = Cardinality(Keys(nextjsClients'))
       /\ \A i, j \in DOMAIN nextjsClients' :
            i < j => \E k, l \in DOMAIN nextjsClients :
                       /\ k < l
                       /\ nextjsClients[k] = nextjsClients'[i]
                       /\ nextjsClients[l] = nextjsClients'[j]]_vars

\* C27 witness: no call has been made, a registered socket that is
\* disconnected and whose disconnect handler has not run is out of the
\* registry, and a connected one that registered before it is still in
C27_Witness ==
  \E s, t \in Ids :
    /\ \A c \in CallIds : calls[c].st = "idle"
    /\ sockets[s].phase = "closing" /\ regAt[s] > 0 /\ ~MapHas(nextjsClients, s)
    /\ Connected(t) /\ MapHas(nextjsClients, t) /\ regAt[t] > regAt[s]

\* the client call c selected is gone: disconnected, or out of the registry
ClientGone(c) ==
  /\ calls[c].sock # NoSocket
  /\ ~Connected(calls[c].sock) \/ ~MapHas(nextjsClients, calls[c].sock)

\* C30: every tool call that selected a client eventually ends, resolved with
\* a payload or rejected with Timeout, also when the selected client
\* disconnects or is removed from the registry by the sweep while the call is
\* pending; a call whose client is disconnected ends with Timeout and is
\* never resolved
C30_EveryCallEnds ==
  /\ \A c \in CallIds :
       (calls[c].st = "pending") ~> (calls[c].st \in {"resolved", "rejected"})
  /\ \A c \in CallIds :
       (calls[c].st = "pending" /\ ~Connected(calls[c].sock))
         ~> (calls[c].st = "rejected" /\ calls[c].err = "Timeout")
  /\ [][\A c \in CallIds :
          (calls[c].st = "pending" /\ ~Connected(calls[c].sock))
            => calls'[c].st # "resolved"]_vars
  /\ [](\A c \in CallIds :
          (calls[c].sock # NoSocket /\ calls[c].st = "rejected") => calls[c].err = "Timeout")

\* C30 witness: a call whose client disconnected and was swept out of the
\* registry while the call was pending has ended with Timeout
C30_Witness ==
  \E c \in CallIds :
    /\ calls[c].st = "rejected" /\ calls[c].err = "Timeout"
    /\ calls[c].req = "sent"
    /\ sockets[calls[c].sock].phase = "closing"
    /\ ~MapHas(nextjsClients, calls[c].sock)

\* C23: GET /health reports the registry as it is: clientCount equals the
\* number of ids in connectedClients, every reported id is a client that is
\* connected at that moment, and serving the request does not change the
\* registry
C23_HealthReportsConnected ==
  \A r \in Answered :
    (rpc[r].req = HealthRequest /\ last.op = "request" /\ last.who = r)
      => /\ rpc[r].resp.clientCount = Len(rpc[r].resp.connectedClients)
         /\ rpc[r].resp.clientCount = Cardinality(Keys(rpc[r].resp.connectedClients))
         /\ \A i \in DOMAIN rpc[r].resp.connectedClients :
              Connected(rpc[r].resp.connectedClients[i])
         /\ nextjsClients = last.seen

\* dispatching request r raises an exception the code does not expect: on
\* HTTP the destructuring of params that are absent, on stdio the read of
\* name or page from arguments that are absent
RaisesTypeError(r) ==
  \/ /\ rpc[r].req.transport = "http" /\ rpc[r].req.body = "object"
     /\ rpc[r].req.method = "tools/call" /\ ~rpc[r].req.hasParams
  \/ /\ rpc[r].req.transport = "stdio" /\ rpc[r].req.method = "tools/call"
     /\ rpc[r].req.name \in {"clickElement", "navigatePage"}
     /\ ~rpc[r].req.args.hasArgs

\* C24: an unexpected exception raised while a request is dispatched is
\* converted into an InternalError response to the caller, and the server
\* goes on serving
C24_ExceptionBecomesInternalError ==
  \A r \in Answered :
    RaisesTypeError(r) => rpc[r].resp.kind = "error" /\ rpc[r].resp.code = -32603

\* C25: POST /mcp/click-element and POST /mcp/navigate check their argument
\* before anything else: a missing or non-string element name is answered 400
\* INVALID_ELEMENT_NAME and a missing or non-string page 400
\* INVALID_PAGE_PATH, whether the bridge is connected or not and without any
\* request through the bridge; only a valid argument with a bridge that is
\* not ready is answered 503 BRIDGE_NOT_READY
C25_ArgumentCheckedFirst ==
  \A r \in RequestIds :
    routes[r].phase # "none"
      => LET body  == routes[r].body
             given == IF body.input \in {"string", "number"} THEN body.input ELSE body.top
         IN  /\ given # "string"
                  => /\ routes[r].phase = "done"
                     /\ routes[r].status = 400
                     /\ routes[r].code = IF routes[r].path = "/click-element"
                                           THEN "INVALID_ELEMENT_NAME"
                                           ELSE "INVALID_PAGE_PATH"
                     /\ bridgeCalls[r] = IdleBridgeCall
             /\ (routes[r].status = 503 \/ routes[r].code = "BRIDGE_NOT_READY")
                  => /\ given = "string" /\ ~routes[r].ready
                     /\ routes[r].status = 503 /\ routes[r].code = "BRIDGE_NOT_READY"
                     /\ bridgeCalls[r] = IdleBridgeCall
             /\ (given = "string" /\ ~routes[r].ready) => routes[r].status = 503

\* C25 witness: a navigate request whose page is a number was answered 400
\* while the bridge was connected
C25_Witness ==
  \E r \in RequestIds :
    /\ routes[r].path = "/navigate" /\ routes[r].body.input = "number"
    /\ routes[r].body.top = "string"
    /\ routes[r].ready /\ bridge.isConnected
    /\ routes[r].status = StatusBadRequest /\ routes[r].code = "INVALID_PAGE_PATH"

\* the events a client sends to the SocketManager
InboundEvents ==
  ToolRequestEvents \cup PageResponseEvents \cup OtherEvents
    \cup {"clickableElementsData", "register:nextjs"}

\* C21: the sweep runs every 30 seconds and removes every session whose
\* lastActivity is older than 5 minutes, so a session idle for more than 5
\* minutes is gone from the registry at the latest 30 seconds later
C21_IdleSessionGoneWithinInterval ==
  \A i \in DOMAIN clientSessions :
    now - clientSessions[i].lastActivity <= 300000 + 30000

\* C22: a session is created when its connection arrives and its
\* lastActivity is refreshed by every inbound event of that client (tool
\* requests, response events, register:nextjs, booking:completed, join-room,
\* leave-room), so a client that keeps sending events is never removed by
\* the sweep
C22_EveryEventRefreshes ==
  /\ last.op = "connection" => SessionHas(clientSessions, last.who)
  /\ (last.op \in InboundEvents /\ SessionHas(clientSessions, last.who))
       => SessionGet(clientSessions, last.who).lastActivity = now

\* C28: a register:nextjs event from a session that is already registered is
\* a no-op on the session's data: its currentPage and its registered flag are
\* the same after the event as before it
C28_RegisterTwiceNoOp ==
  (/\ last.op = "register:nextjs"
   /\ SessionHas(last.seen, last.who)
   /\ SessionGet(last.seen, last.who).isNextJsClient)
    => /\ SessionHas(clientSessions, last.who)
       /\ SessionGet(clientSessions, last.who).isNextJsClient
       /\ SessionGet(clientSessions, last.who).currentPage
            = SessionGet(last.seen, last.who).currentPage

\* C29: the registered flag of a session is true only if that connection has
\* sent register:nextjs, and a bare connection that never registered is never
\* the target findNextJsClient chooses for a forwarded tool request
C29_FlagOnlyByRegister ==
  /\ \A i \in DOMAIN clientSessions :
       clientSessions[i].isNextJsClient => sockets[clientSessions[i].id].sent
  /\ (last.op \in ToolRequestEvents /\ last.sid # NoSocket) => sockets[last.sid].sent

\* C31: every POST /mcp request receives exactly one HTTP response whose id
\* is the id of the request, null only when the body could not be parsed,
\* and a tools/call is answered only after its tool call has ended
C31_OneResponseWithRequestId ==
  \A r \in Answered :
    (rpc[r].req.transport = "http" /\ rpc[r].req # HealthRequest)
      => /\ rpc[r].resp.kind \in {"result", "error"}
         /\ rpc[r].req.body = "invalid" => rpc[r].resp.id = NullId
         /\ rpc[r].req.body = "object" => rpc[r].resp.id = rpc[r].req.id
         /\ (NamesTool(r) /\ rpc[r].req.name \in Tools)
              => calls[r].st \in {"resolved", "rejected"}

\* C32: POST /mcp answers with ParseError only a body that is no valid JSON
C32_ParseErrorOnlyForInvalidJson ==
  \A r \in Answered :
    (rpc[r].req.transport = "http" /\ rpc[r].resp.code = ParseErrorCode)
      => rpc[r].req.body = "invalid"

\* C33: a register:nextjs event from a connection that is already in the
\* registry leaves the order of the registry as it was, and with it the
\* client a call without sessionId is sent to
C33_RegisterKeepsSelection ==
  (last.op = "register" /\ MapHas(last.seen, last.who))
    => /\ nextjsClients = last.seen
       /\ getBestAvailableClient(nextjsClients) = getBestAvailableClient(last.seen)

\* C33 witness: the older of two registered and connected clients of the
\* default namespace has sent register:nextjs again, and the younger one is
\* still the client selected
C33_Witness ==
  /\ last.op = "register" /\ sockets[last.who].ns = "main"
  /\ Len(last.seen) = 2 /\ last.seen[1] = last.who
  /\ \A i \in DOMAIN last.seen : Connected(last.seen[i])
  /\ getBestAvailableClient(nextjsClients) = last.seen[2]

\* namespace.to(id).emit: the connected sockets of namespace ns in the room
\* named id; a socket is in the room of its own id in its own namespace only
Receivers(ns, id) ==
  {t \in Ids : t = id /\ Connected(t) /\ sockets[t].ns = ns}

\* C34: in SocketManager every tool request event is either delivered to a
\* registered Next.js client or answered to the requester with an error
\* event, also when the requester and the Next.js client are on different
\* namespaces
C34_DeliveredOrError ==
  last.op \in ToolRequestEvents
    => IF last.sid = NoSocket
         THEN Receivers(sockets[last.who].ns, last.who) # {}
         ELSE Receivers(sockets[last.who].ns, last.sid) # {}

\* C35: a connection that is still connected can always become a usable
\* Next.js client again: after a register:nextjs event its session is present
\* and flagged, also when the sweep had deleted the session before
C35_RegisterRestoresSession ==
  last.op = "register:nextjs"
    => /\ SessionHas(clientSessions, last.who)
       /\ SessionGet(clientSessions, last.who).isNextJsClient

\* C36: every HttpToSocketBridge method call resolves exactly once and its
\* listener is one-time: once the call has resolved, by a response or by the
\* timeout, neither its timer nor its listener remains, so a later response
\* is handled only by the call that is pending then
C36_ListenerGoneOnceResolved ==
  \A r \in RequestIds :
    bridgeCalls[r].st = "resolved"
      => ~bridgeCalls[r].timer /\ ~bridgeCalls[r].listening

\* C37: a booking:fill event is emitted only for data that pass
\* validateBookingData, on the path of BookingService.sendBookingFillEvent
\* and on the path of POST /tools/booking/fill alike, and a rejected request
\* emits no event
C37_FillOnlyForValidData ==
  /\ \A i \in DOMAIN booking.events : validateBookingData(booking.events[i]).isValid
  /\ (booking.phase = "done" /\ ~booking.success) => booking.events = <<>>

\* the terminal events of a submission
TerminalEvents == {"form:submitted", "form:error"}

\* the events a submission has emitted follow the fixed order
FormOrder(f) ==
  LET form   == forms[f]
      events == form.events
      ends   == {i \in DOMAIN events : events[i] \in TerminalEvents}
  IN  form.phase # "idle"
        => /\ events[1] = "form:received"
           /\ Cardinality({i \in DOMAIN events : events[i] = "form:received"}) = 1
           /\ Cardinality(ends) <= 1
           /\ form.phase = "done" <=> Cardinality(ends) = 1
           /\ \A i \in ends : i = Len(events)
           /\ IF ~validateFormData(form.data).isValid
                THEN /\ form.phase = "done"
                     /\ events = <<"form:received", "form:error">>
                     /\ form.requests = 0
                ELSE /\ Len(events) >= 2 /\ events[2] = "form:processing"
                     /\ form.requests = 1
                     /\ Len(events) <= 3
           /\ form.returned = "success"
                <=> \E i \in DOMAIN events : events[i] = "form:submitted"
           /\ form.phase = "done" <=> form.returned # "none"

\* C38: every submitForm call emits form:received first; for invalid data
\* it emits form:error and makes no API request and emits no
\* form:processing; for valid data it emits form:processing and then exactly
\* one of form:submitted and form:error; it returns success exactly when
\* form:submitted was emitted
C38_FixedOrderOneTerminal ==
  /\ [](\A f \in FormIds : FormOrder(f))
  /\ \A f \in FormIds : (forms[f].phase = "awaiting") ~> (forms[f].phase = "done")

\* C38 witness: a submission with valid data has ended with form:error after
\* the API gave no response, while a later one with an invalid email has
\* ended without a request
C38_Witness ==
  \E f, g \in FormIds :
    /\ f < g
    /\ forms[f].events = <<"form:received", "form:processing", "form:error">>
    /\ forms[f].error = "No response from Next.js API"
    /\ forms[g].phase = "done" /\ forms[g].data.email = "text"
    /\ forms[g].requests = 0

====
